---- MODULE Spec2Model ----
(***************************************************************************)
(* A model of myrient_sync.py: the breadth-first walk of the remote        *)
(* directory listings (list_dir, get_file_list), the exclude matcher       *)
(* (compile_exclude_patterns), the per-file conditional download           *)
(* (download_file, download_file_with_retry) and the run loop (main).      *)
(*                                                                         *)
(* Strings are sequences of one-character strings, so that composition,    *)
(* suffixes, regular-expression matching and sorting are computed.         *)
(***************************************************************************)
EXTENDS Integers, Sequences, FiniteSets, TLC

VARIABLES
    remote,         \* the server's tree: directory path -> sequence of raw hrefs
    excludes,       \* args.exclude: the sequence of exclude patterns
    tz,             \* UTC offset of the local time zone, in hours
    fs,             \* local files under destdir: relative path -> [content, mtime]
    ldirs,          \* local directories created under destdir
    run,            \* number of the current invocation of the program
    pc,             \* position of the process
    dir_queue,      \* get_file_list: dir_queue
    dirs_seen,      \* get_file_list: dirs_seen
    file_paths,     \* get_file_list: file_paths (sorted once the walk returns)
    listed,         \* the calls of list_dir in this walk: [dir, status, page]
    accepted,       \* names list_dir has returned in this walk
    idx,            \* main: position of the for loop in file_paths (1-based)
    try_count,      \* download_file_with_retry: try_count
    attempts,       \* the GETs issued for the current file: [status, headers]
    download_count, \* main: download_count
    skipped_count,  \* main: skipped_count
    failed_count,   \* main: failed_count
    outcomes,       \* per finished file of this run: [path, status, attempts]
    exit_code,      \* process exit status (-1 while running)
    how,            \* how the process ended: "", "normal", "aborted", or the
                    \* uncaught exception: "listing", "transport"
    prev_paths,     \* the list the previous walk returned
    prev_listed,    \* the calls of list_dir in the previous walk
    prev_outcomes,  \* outcomes of the previous run
    probe           \* a path put to the exclude matcher: [x, result]

vars == << remote, excludes, tz, fs, ldirs, run, pc, dir_queue, dirs_seen,
           file_paths, listed, accepted, idx, try_count, attempts,
           download_count, skipped_count, failed_count, outcomes, exit_code,
           how, prev_paths, prev_listed, prev_outcomes, probe >>

----------------------------------------------------------------------------
(* Bounds of the model *)

\* invocations of the program, one after the other, on the same destdir
MaxRuns == 2
\* chunks of 8192 bytes in a response body
NumChunks == 2
\* hrefs in the listing of the root directory (walk specification)
MaxRootEntries == 2
\* hrefs in the listing of a sub-directory (walk specification)
MaxSubEntries == 1
\* the remote files' Last-Modified instant, in hours since the epoch
RemoteTime == 5
\* largest distance of the local time zone from UTC, in hours
MaxTz == 1
\* the walk is followed as far as directory paths of this many characters; a
\* longer path stays in the queue, its listing not modelled
MaxPathLen == 7
\* characters of an exclude pattern put to the matcher on its own
MaxPatternLen == 2
\* characters after the leading '/' of a path put to the matcher on its own
MaxProbeLen == 3

\* the mtime of a stale local copy, and the clock when a .tmp file is opened
StaleTime == RemoteTime - 2
Now == RemoteTime + 3

----------------------------------------------------------------------------
(* Strings *)

\* codepoints of the characters used
Ord(c) ==
    CASE c = "\n" -> 10
      [] c = "%" -> 37
      [] c = "*" -> 42
      [] c = "." -> 46
      [] c = "/" -> 47
      [] c = "2" -> 50
      [] c = "E" -> 69
      [] c = "F" -> 70
      [] c = "\\" -> 92
      [] c = "a" -> 97
      [] c = "b" -> 98
      [] c = "f" -> 102
      [] c = "m" -> 109
      [] c = "o" -> 111
      [] c = "p" -> 112
      [] c = "r" -> 114
      [] c = "s" -> 115
      [] c = "t" -> 116
      [] c = "x" -> 120
      [] c = "z" -> 122

\* str < str of Python: lexicographic by codepoint, a proper prefix first
RECURSIVE StrLess(_, _)
StrLess(a, b) ==
    IF a = << >> THEN b # << >>
    ELSE IF b = << >> THEN FALSE
    ELSE IF a[1] = b[1] THEN StrLess(Tail(a), Tail(b))
    ELSE Ord(a[1]) < Ord(b[1])

EndsWith(s, c) == Len(s) > 0 /\ s[Len(s)] = c

\* str.lstrip('/')
RECURSIVE Lstrip(_)
Lstrip(s) == IF s # << >> /\ s[1] = "/" THEN Lstrip(Tail(s)) ELSE s

\* the %XX escapes urllib.parse.unquote meets here
HexPairs == { <<"2", "F">>, <<"2", "E">> }
HexChar(h) == IF h = <<"2", "F">> THEN "/" ELSE "."

\* urllib.parse.unquote
RECURSIVE Unquote(_)
Unquote(s) ==
    IF s = << >> THEN << >>
    ELSE IF s[1] = "%" /\ Len(s) >= 3 /\ <<s[2], s[3]>> \in HexPairs
         THEN <<HexChar(<<s[2], s[3]>>)>> \o Unquote(SubSeq(s, 4, Len(s)))
         ELSE <<s[1]>> \o Unquote(Tail(s))

----------------------------------------------------------------------------
(* valid_path_re = ^((?!\.\./)[^/\\]+/)*(?!\.\./)[^/\\]+/?$ *)

IsSep(c) == c = "/" \/ c = "\\"

\* the lookahead \.\./ at position i
LookDotDotSlash(s, i) ==
    i + 2 <= Len(s) /\ s[i] = "." /\ s[i + 1] = "." /\ s[i + 2] = "/"

\* the rest of the pattern matches s from position i: a segment [^/\\]+ not
\* opening with ../ , which is the last one (with or without its /) or is
\* followed by / and another match
RECURSIVE ValidFrom(_, _)
ValidFrom(s, i) ==
    /\ i <= Len(s)
    /\ ~LookDotDotSlash(s, i)
    /\ \E j \in i..Len(s) :
          /\ \A k \in i..j : ~IsSep(s[k])
          /\ \/ j = Len(s)
             \/ (j + 1 = Len(s) /\ s[j + 1] = "/")
             \/ (j + 1 < Len(s) /\ s[j + 1] = "/" /\ ValidFrom(s, j + 2))

ValidPath(s) == ValidFrom(s, 1)

----------------------------------------------------------------------------
(* compile_exclude_patterns *)

\* '$' at position j of x: the end, or just before a newline that ends x
AtEnd(x, j) == j = Len(x) + 1 \/ (j = Len(x) /\ x[j] = "\n")

\* '.*$' from position j of x: '.' is any character but a newline
DotStarEnd(x, j) ==
    \E e \in j..(Len(x) + 1) : AtEnd(x, e) /\ \A k \in j..(e - 1) : x[k] # "\n"

\* '(?:/.*)?$' from position j of x
TailMatch(x, j) ==
    \/ AtEnd(x, j)
    \/ (j <= Len(x) /\ x[j] = "/" /\ DotStarEnd(x, j + 1))

\* '^/' + re.escape(p).replace('\*', '[^/]*') + '(?:/.*)?$' matched on x, with
\* the pattern at position i and x at position j
RECURSIVE GlobFrom(_, _, _, _)
GlobFrom(p, i, x, j) ==
    IF i > Len(p)
    THEN TailMatch(x, j)
    ELSE IF p[i] = "*"
    THEN \/ GlobFrom(p, i + 1, x, j)
         \/ (j <= Len(x) /\ x[j] # "/" /\ GlobFrom(p, i, x, j + 1))
    ELSE j <= Len(x) /\ x[j] = p[i] /\ GlobFrom(p, i + 1, x, j + 1)

PatternMatch(p, x) == Len(x) >= 1 /\ x[1] = "/" /\ GlobFrom(p, 1, x, 2)

\* nothing_re = '$^' matches at the start of a string that ends there, or
\* that is one newline
NothingMatch(x) == AtEnd(x, 1)

\* exclude_re.match(x) for exclude_re = compile_exclude_patterns(patterns)
ExcludeMatch(patterns, x) ==
    IF patterns = << >> THEN NothingMatch(x)
    ELSE \E k \in 1..Len(patterns) : PatternMatch(patterns[k], x)

----------------------------------------------------------------------------
(* list.sort() *)

RECURSIVE InsertSorted(_, _)
InsertSorted(x, s) ==
    IF s = << >> THEN <<x>>
    ELSE IF StrLess(x, s[1]) THEN <<x>> \o s
    ELSE <<s[1]>> \o InsertSorted(x, Tail(s))

RECURSIVE SortedOf(_)
SortedOf(s) == IF s = << >> THEN << >> ELSE InsertSorted(s[1], SortedOf(Tail(s)))

NoSort(s) == s

\* file_paths.sort()
SortPaths(s) == SortedOf(s)

----------------------------------------------------------------------------
(* The remote server *)

RootDir == <<"/">>
SubDir == <<"/", "s", "/">>
SubSubDir == <<"/", "s", "/", "s", "/">>

\* hrefs, as they stand in the listing pages
hrefA == <<"a">>
hrefB == <<"b">>
hrefATmp == <<"a", ".", "t", "m", "p">>
hrefS == <<"s", "/">>
hrefDotDot == <<".", ".">>
hrefParent == <<".", ".", "/">>
hrefParentEnc == <<".", ".", "%", "2", "F">>
hrefSA == <<"s", "/", "a">>
hrefSS == <<"s", "/", "s", "/">>
hrefDot == <<".", "/">>

\* all sequences over S of length at most n
SeqsUpTo(S, n) == UNION { [1..k -> S] : k \in 0..n }

\* the orders a listing page may give the entries of s in
Perms(s) ==
    { [i \in 1..Len(s) |-> s[p[i]]] :
        p \in { q \in [1..Len(s) -> 1..Len(s)] :
                  \A i, j \in 1..Len(s) : q[i] = q[j] => i = j } }

\* the listings of at most n entries over S, one for each choice of entries:
\* the order of a page is chosen when it is fetched
Listings(S, n) ==
    { s \in SeqsUpTo(S, n) : \A i \in 1..(Len(s) - 1) : ~StrLess(s[i + 1], s[i]) }

Tree(rootL, subL) == (RootDir :> rootL) @@ (SubDir :> subL) @@ (SubSubDir :> <<hrefA>>)

\* the trees of the walk specification: any hrefs, well-formed or not
WalkRootHrefs == { hrefA, hrefB, hrefS, hrefDotDot, hrefParentEnc, hrefSA, hrefSS }
WalkSubHrefs == { hrefA, hrefS, hrefParent }
WalkTrees ==
    { Tree(r, s) : r \in Listings(WalkRootHrefs, MaxRootEntries),
                   s \in Listings(WalkSubHrefs, MaxSubEntries) }
WalkExcludes == { << >>, << <<"s">> >>, << <<"s", "/">> >>, << <<"a">> >>, << <<"*">> >> }

\* the trees of the run specification
RunTrees ==
    { Tree(<<hrefA>>, << >>), Tree(<<hrefA, hrefATmp>>, << >>),
      Tree(<<hrefA, hrefS>>, <<hrefA>>) }
RunExcludes == { << >>, << <<"s">> >> }

\* the body of remote file src, as the chunks iter_content yields
Body(src) == [k \in 1..NumChunks |-> [src |-> src, k |-> k]]
\* an earlier version of it
OldBody(src) == << [src |-> src, k |-> 0] >>

----------------------------------------------------------------------------
(* list_dir and get_file_list *)

\* the directory a request for path is answered with: the '.' segments of a
\* URL path name the directory they stand in
RECURSIVE ResolveFrom(_, _)
ResolveFrom(path, i) ==
    IF i > Len(path) THEN << >>
    ELSE IF i > 1 /\ i < Len(path) /\ path[i - 1] = "/" /\ path[i] = "." /\ path[i + 1] = "/"
         THEN ResolveFrom(path, i + 2)
         ELSE <<path[i]>> \o ResolveFrom(path, i + 1)
Resolve(path) == ResolveFrom(path, 1)

\* list_dir's loop over the anchors: unquote each href, keep the valid names
RECURSIVE ListDirResult(_)
ListDirResult(hrefs) ==
    IF hrefs = << >> THEN << >>
    ELSE LET name == Unquote(hrefs[1])
         IN  (IF ValidPath(name) THEN <<name>> ELSE << >>)
                \o ListDirResult(Tail(hrefs))

\* sub_path = dir_path + entry.name
SubPath(dir_path, name) == dir_path \o name

\* exclude_re.match(x)
Excluded(x) == ExcludeMatch(excludes, x)

EntryExcluded(dir_path, name) == Excluded(<<"/">> \o name)

\* exclude_re.match(sub_path), sub_path composed of the directory and the entry
SubPathExcluded(dir_path, name) == Excluded(SubPath(dir_path, name))

NeverDir(sub_path) == FALSE

\* sub_path.endswith('/')
IsDirPath(sub_path) == EndsWith(sub_path, "/")

NeverSeen(sub_path, seen) == FALSE

\* sub_path in dirs_seen
AlreadySeen(sub_path, seen) == sub_path \in seen

\* the for loop of get_file_list over the entries of one listing
RECURSIVE WalkEntries(_, _, _, _, _)
WalkEntries(entries, dir_path, q, seen, files) ==
    IF entries = << >> THEN [q |-> q, seen |-> seen, files |-> files]
    ELSE LET sub_path == SubPath(dir_path, entries[1])
             rest == Tail(entries)
         IN  IF IsDirPath(sub_path)
             THEN IF ~AlreadySeen(sub_path, seen) /\ ~SubPathExcluded(dir_path, entries[1])
                  THEN WalkEntries(rest, dir_path, Append(q, sub_path),
                                   seen \cup {sub_path}, files)
                  ELSE WalkEntries(rest, dir_path, q, seen, files)
             ELSE IF ~SubPathExcluded(dir_path, entries[1])
                  THEN WalkEntries(rest, dir_path, q, seen, Append(files, sub_path))
                  ELSE WalkEntries(rest, dir_path, q, seen, files)

Range(s) == { s[i] : i \in 1..Len(s) }

syncVars == << fs, ldirs, idx, try_count, attempts, download_count,
               skipped_count, failed_count, outcomes >>
envVars == << remote, excludes, tz, probe >>

\* the process dies of an exception main does not catch
Raise(exc) ==
    /\ pc' = "exited"
    /\ exit_code' = 1
    /\ how' = exc

\* one iteration of 'while dir_queue' whose listing fetch answers 200; the
\* iteration that empties the queue goes on to sort and return
ListDirOK ==
    /\ pc = "walk"
    /\ dir_queue # << >>
    /\ Len(Head(dir_queue)) <= MaxPathLen
    /\ Resolve(Head(dir_queue)) \in DOMAIN remote
    /\ \E page \in Perms(remote[Resolve(Head(dir_queue))]) :
          LET dir_path == Head(dir_queue)
              entries == ListDirResult(page)
              w == WalkEntries(entries, dir_path, Tail(dir_queue), dirs_seen, file_paths)
          IN  /\ listed' = Append(listed, [dir |-> dir_path, status |-> 200, page |-> page])
              /\ accepted' = accepted \cup Range(entries)
              /\ dir_queue' = w.q
              /\ dirs_seen' = w.seen
              /\ IF w.q = << >>
                 THEN /\ file_paths' = SortPaths(w.files)
                      /\ pc' = "fetch"
                 ELSE /\ file_paths' = w.files
                      /\ pc' = "walk"
    /\ UNCHANGED << envVars, syncVars, run, exit_code, how, prev_paths, prev_listed, prev_outcomes >>

ListDirIgnore ==
    /\ pc = "walk"
    /\ dir_queue # << >>
    /\ listed' = Append(listed, [dir |-> Head(dir_queue), status |-> 500, page |-> << >>])
    /\ dir_queue' = Tail(dir_queue)
    /\ IF Tail(dir_queue) = << >>
       THEN /\ file_paths' = SortPaths(file_paths)
            /\ pc' = "fetch"
       ELSE UNCHANGED << file_paths, pc >>
    /\ UNCHANGED << envVars, syncVars, run, dirs_seen, accepted, exit_code, how,
                    prev_paths, prev_listed, prev_outcomes >>

\* the listing fetch answers another status than 200: list_dir raises
ListDirFail ==
    /\ pc = "walk"
    /\ dir_queue # << >>
    /\ Len(Head(dir_queue)) <= MaxPathLen
    /\ listed' = Append(listed, [dir |-> Head(dir_queue), status |-> 500, page |-> << >>])
    /\ dir_queue' = Tail(dir_queue)
    /\ Raise("listing")
    /\ UNCHANGED << envVars, syncVars, run, dirs_seen, file_paths, accepted,
                    prev_paths, prev_listed, prev_outcomes >>

\* get_file_list is called once more, on the same tree
WalkAgain ==
    /\ pc = "fetch"
    /\ run < MaxRuns
    /\ run' = run + 1
    /\ prev_paths' = file_paths
    /\ prev_listed' = listed
    /\ pc' = "walk"
    /\ dir_queue' = <<RootDir>>
    /\ dirs_seen' = {}
    /\ file_paths' = << >>
    /\ listed' = << >>
    /\ accepted' = {}
    /\ UNCHANGED << envVars, syncVars, exit_code, how, prev_outcomes >>

\* the state of a process that has just entered get_file_list
\* no path is put to the matcher on its own
NoProbe == [x |-> << >>, result |-> "none"]

Started ==
    /\ run = 1
    /\ pc = "walk"
    /\ dir_queue = <<RootDir>>
    /\ dirs_seen = {}
    /\ file_paths = << >>
    /\ listed = << >>
    /\ accepted = {}
    /\ idx = 1
    /\ try_count = 1
    /\ attempts = << >>
    /\ download_count = 0
    /\ skipped_count = 0
    /\ failed_count = 0
    /\ outcomes = << >>
    /\ exit_code = -1
    /\ how = ""
    /\ prev_paths = << >>
    /\ prev_listed = << >>
    /\ prev_outcomes = << >>
    /\ probe = NoProbe

InitWalk ==
    /\ remote \in WalkTrees
    /\ excludes \in WalkExcludes
    /\ tz = 0
    /\ fs = << >>
    /\ ldirs = {}
    /\ Started

NextWalk == ListDirOK \/ ListDirFail \/ WalkAgain

SpecWalk == InitWalk /\ [][NextWalk]_vars

----------------------------------------------------------------------------
(* The local filesystem and the conditional request *)

EmptyFs == [p \in {} |-> 0]
Put(f, p, rec) == [q \in (DOMAIN f) \cup {p} |-> IF q = p THEN rec ELSE f[q]]
Remove(f, p) == [q \in (DOMAIN f) \ {p} |-> f[q]]
\* the file at path p: << >> when there is none, <<record>> otherwise
FileAt(f, p) == IF p \in DOMAIN f THEN <<f[p]>> ELSE << >>

\* dst_file_path = os.path.join(dest_dir, src_file_path.lstrip('/')), relative
\* to dest_dir
DstPath(src) == Lstrip(src)

SamePath(dst) == dst

\* tmp_file_path = dst_file_path + '.tmp'
TmpPath(dst) == dst \o <<".", "t", "m", "p">>

\* os.makedirs(os.path.dirname(dst_file_path), exist_ok=True): the directories
\* under dest_dir it makes sure of
ParentDirs(dst) == { SubSeq(dst, 1, i) : i \in { k \in 1..Len(dst) : dst[k] = "/" } }

\* datetime.datetime.fromtimestamp(t): the naive local wall-clock time
FromTimestamp(t) == t + tz
\* email.utils.format_datetime of a naive datetime: the wall-clock time, -0000
FormatDatetime(naive) == [wall |-> naive, zone |-> 0]
\* the instant a date header names
ParseDate(h) == h.wall - h.zone

\* headers: If-Modified-Since when the destination exists
RequestHeaders(dst) ==
    IF dst \in DOMAIN fs
    THEN <<FormatDatetime(FromTimestamp(fs[dst].mtime))>>
    ELSE << >>

\* the status of a server that honours If-Modified-Since
ServerStatus(headers) ==
    IF headers # << >> /\ ParseDate(headers[1]) >= RemoteTime THEN 304 ELSE 200

----------------------------------------------------------------------------
(* download_file, download_file_with_retry, main *)

\* download_file_with_retry(..., num_retries=3, ...)
num_retries == 3

OneTryMore(tc) == tc <= num_retries

\* for try_count in range(1, num_retries + 1): another iteration follows tc
RetryAgain(tc) == tc < num_retries

ExitStatusZero(failed) == 0

\* sys.exit(1 if failed_count > 0 else 0)
ExitStatus(failed) == IF failed > 0 THEN 1 ELSE 0

src_file_path == file_paths[idx]
dst_file_path == DstPath(src_file_path)
tmp_file_path == TmpPath(dst_file_path)

walkVars == << dir_queue, dirs_seen, file_paths, listed, accepted >>
runVars == << run, prev_paths, prev_listed, prev_outcomes >>
countVars == << download_count, skipped_count, failed_count >>

FinishFileDropsFailed(status, att) ==
    /\ outcomes' = Append(outcomes, [path |-> src_file_path, status |-> status,
                                     attempts |-> att])
    /\ download_count' = download_count + (IF status = "Success" THEN 1 ELSE 0)
    /\ skipped_count' = skipped_count + (IF status = "Skipped" THEN 1 ELSE 0)
    /\ failed_count' = failed_count
    /\ idx' = idx + 1
    /\ try_count' = 1
    /\ attempts' = << >>
    /\ pc' = "fetch"

\* download_file_with_retry returns status to main, which counts it and goes
\* on to the next file
FinishFile(status, att) ==
    /\ outcomes' = Append(outcomes, [path |-> src_file_path, status |-> status,
                                     attempts |-> att])
    /\ download_count' = download_count + (IF status = "Success" THEN 1 ELSE 0)
    /\ skipped_count' = skipped_count + (IF status = "Skipped" THEN 1 ELSE 0)
    /\ failed_count' = failed_count +
                          (IF status \notin {"Success", "Skipped"} THEN 1 ELSE 0)
    /\ idx' = idx + 1
    /\ try_count' = 1
    /\ attempts' = << >>
    /\ pc' = "fetch"

InLoop == pc = "fetch" /\ idx <= Len(file_paths)

\* one GET of the current file: the status it got (0: none, the transport
\* failed) and the headers it carried
Attempt(status) == [status |-> status, headers |-> RequestHeaders(dst_file_path)]

\* download_file up to the response, which is 200 or 304 as the server decides
FetchOK ==
    /\ InLoop
    /\ ldirs' = ldirs \cup ParentDirs(dst_file_path)
    /\ IF ServerStatus(RequestHeaders(dst_file_path)) = 200
       THEN /\ fs' = Put(fs, tmp_file_path, [content |-> << >>, mtime |-> Now])
            /\ attempts' = Append(attempts, Attempt(200))
            /\ pc' = "stream"
            /\ UNCHANGED << countVars, outcomes, idx, try_count >>
       ELSE /\ FinishFile("Skipped", Append(attempts, Attempt(304)))
            /\ fs' = fs
    /\ UNCHANGED << envVars, walkVars, runVars, exit_code, how >>

FetchErrorOpensTmp ==
    /\ InLoop
    /\ ldirs' = ldirs \cup ParentDirs(dst_file_path)
    /\ fs' = Put(fs, tmp_file_path, [content |-> << >>, mtime |-> Now])
    /\ attempts' = Append(attempts, Attempt(500))
    /\ pc' = "sleep"
    /\ UNCHANGED << envVars, walkVars, runVars, countVars, outcomes, idx,
                    try_count, exit_code, how >>

\* download_file whose response is neither 200 nor 304: Failed, and
\* download_file_with_retry prints and sleeps
FetchError ==
    /\ InLoop
    /\ ldirs' = ldirs \cup ParentDirs(dst_file_path)
    /\ attempts' = Append(attempts, Attempt(500))
    /\ pc' = "sleep"
    /\ UNCHANGED << envVars, walkVars, runVars, countVars, outcomes, idx,
                    try_count, fs, exit_code, how >>

\* requests.get raises (connection refused, reset, timeout)
FetchNetError ==
    /\ InLoop
    /\ ldirs' = ldirs \cup ParentDirs(dst_file_path)
    /\ attempts' = Append(attempts, Attempt(0))
    /\ Raise("transport")
    /\ UNCHANGED << envVars, walkVars, runVars, countVars, outcomes, idx,
                    try_count, fs >>

\* one iteration of the loop over response.iter_content
WriteChunk ==
    /\ pc = "stream"
    /\ LET n == Len(fs[tmp_file_path].content)
       IN  /\ fs' = Put(fs, tmp_file_path,
                        [content |-> Append(fs[tmp_file_path].content,
                                            Body(src_file_path)[n + 1]),
                         mtime |-> Now])
           /\ pc' = IF n + 1 = NumChunks THEN "utime" ELSE "stream"
    /\ UNCHANGED << envVars, walkVars, runVars, countVars, outcomes, idx,
                    try_count, attempts, ldirs, exit_code, how >>

\* iter_content raises while the body is streamed
StreamNetError ==
    /\ pc = "stream"
    /\ Raise("transport")
    /\ UNCHANGED << envVars, walkVars, runVars, syncVars >>

NoUtime ==
    /\ pc = "utime"
    /\ pc' = "replace"
    /\ UNCHANGED << envVars, walkVars, runVars, countVars, outcomes, idx,
                    try_count, attempts, fs, ldirs, exit_code, how >>

\* os.utime(tmp_file_path, (atime, last_modified.timestamp()))
Utime ==
    /\ pc = "utime"
    /\ fs' = Put(fs, tmp_file_path, [fs[tmp_file_path] EXCEPT !.mtime = RemoteTime])
    /\ pc' = "replace"
    /\ UNCHANGED << envVars, walkVars, runVars, countVars, outcomes, idx,
                    try_count, attempts, ldirs, exit_code, how >>

\* os.replace(tmp_file_path, dst_file_path); return DownloadStatus.Success
Replace ==
    /\ pc = "replace"
    /\ fs' = Put(Remove(fs, tmp_file_path), dst_file_path, fs[tmp_file_path])
    /\ FinishFile("Success", attempts)
    /\ UNCHANGED << envVars, walkVars, runVars, ldirs, exit_code, how >>

\* time.sleep(retry_delay) returns: the next try, or Failed after the last
Wake ==
    /\ pc = "sleep"
    /\ IF RetryAgain(try_count)
       THEN /\ try_count' = try_count + 1
            /\ pc' = "fetch"
            /\ UNCHANGED << countVars, outcomes, idx, attempts >>
       ELSE FinishFile("Failed", attempts)
    /\ UNCHANGED << envVars, walkVars, runVars, fs, ldirs, exit_code, how >>

\* after the for loop: the summary and sys.exit
Exit ==
    /\ pc = "fetch"
    /\ idx > Len(file_paths)
    /\ exit_code' = ExitStatus(failed_count)
    /\ how' = "normal"
    /\ pc' = "exited"
    /\ UNCHANGED << envVars, walkVars, runVars, syncVars >>

InterruptExitZero ==
    /\ pc # "exited"
    /\ exit_code' = 0
    /\ how' = "aborted"
    /\ pc' = "exited"
    /\ UNCHANGED << envVars, walkVars, runVars, syncVars >>

\* KeyboardInterrupt: 'Aborted', sys.exit(1)
Interrupt ==
    /\ pc # "exited"
    /\ exit_code' = 1
    /\ how' = "aborted"
    /\ pc' = "exited"
    /\ UNCHANGED << envVars, walkVars, runVars, syncVars >>

\* the program is invoked again on the same destdir
Restart ==
    /\ pc = "exited"
    /\ run < MaxRuns
    /\ run' = run + 1
    /\ prev_paths' = file_paths
    /\ prev_listed' = listed
    /\ prev_outcomes' = outcomes
    /\ pc' = "walk"
    /\ dir_queue' = <<RootDir>>
    /\ dirs_seen' = {}
    /\ file_paths' = << >>
    /\ listed' = << >>
    /\ accepted' = {}
    /\ idx' = 1
    /\ try_count' = 1
    /\ attempts' = << >>
    /\ download_count' = 0
    /\ skipped_count' = 0
    /\ failed_count' = 0
    /\ outcomes' = << >>
    /\ exit_code' = -1
    /\ how' = ""
    /\ UNCHANGED << envVars, fs, ldirs >>

\* what destdir may hold before the first run
InitFs == { EmptyFs,
            (<<"a">> :> [content |-> OldBody(<<"/", "a">>), mtime |-> StaleTime]) }

Init ==
    /\ remote \in RunTrees
    /\ excludes \in RunExcludes
    /\ tz \in (-MaxTz)..MaxTz
    /\ fs \in InitFs
    /\ ldirs = {}
    /\ Started

Next ==
    \/ ListDirOK
    \/ ListDirFail
    \/ FetchOK
    \/ FetchError
    \/ FetchNetError
    \/ WriteChunk
    \/ StreamNetError
    \/ Utime
    \/ Replace
    \/ Wake
    \/ Exit
    \/ Interrupt
    \/ Restart

Spec == Init /\ [][Next]_vars

----------------------------------------------------------------------------
(* Properties of the file transfer and of the run *)

\* a file of the task list is being synchronized
Syncing == pc \in {"fetch", "stream", "utime", "replace", "sleep"} /\ idx <= Len(file_paths)

Last(s) == s[Len(s)]
IsFailure(status) == status \notin {200, 304}

\* C1: while download_file transfers file f, every step (an interrupt or an
\* exception included) leaves the destination of f as it was, or puts the
\* complete new body there; no step leaves a partial body at the destination.
C1_DestinationNeverPartial ==
    [][ Syncing =>
          \/ FileAt(fs', dst_file_path) = FileAt(fs, dst_file_path)
          \/ /\ dst_file_path \in DOMAIN fs'
             /\ fs'[dst_file_path].content = Body(src_file_path) ]_vars

\* the process was interrupted while the body was streamed into .tmp, and the
\* destination still holds the whole previous content
C1_Witness ==
    /\ how = "aborted"
    /\ idx <= Len(file_paths)
    /\ tmp_file_path \in DOMAIN fs
    /\ Len(fs[tmp_file_path].content) \in 1..(NumChunks - 1)
    /\ dst_file_path \in DOMAIN fs
    /\ fs[dst_file_path].content = OldBody(src_file_path)

\* the attempts att are N-1 failures followed by a 200
FailsThenOK(att) ==
    /\ att # << >>
    /\ Last(att).status = 200
    /\ \A i \in 1..(Len(att) - 1) : IsFailure(att[i].status)
AllFail(att) == \A i \in 1..Len(att) : IsFailure(att[i].status)

\* C2: never more than num_retries GETs are issued for a file; a file whose
\* attempts are N-1 failures and then a 200 ends Success with exactly those N
\* GETs; a file ends Failed exactly when num_retries attempts have all failed,
\* and a run that has a Failed file does not exit with status 0.
C2_RetryBound ==
    /\ Len(attempts) <= num_retries
    /\ pc = "sleep" => (Len(attempts) = try_count /\ AllFail(attempts))
    /\ pc \in {"stream", "utime", "replace"} =>
          (FailsThenOK(attempts) /\ Len(attempts) = try_count)
    /\ \A i \in 1..Len(outcomes) :
          LET o == outcomes[i]
          IN  /\ Len(o.attempts) \in 1..num_retries
              /\ FailsThenOK(o.attempts) <=> o.status = "Success"
              /\ (AllFail(o.attempts) /\ Len(o.attempts) = num_retries)
                    <=> o.status = "Failed"
    /\ (pc = "exited" /\ \E i \in 1..Len(outcomes) : outcomes[i].status = "Failed")
          => exit_code # 0

\* a run that ended normally with one file downloaded on its last allowed
\* attempt and another failed on all of them
C2_Witness ==
    /\ how = "normal"
    /\ exit_code = 1
    /\ \E i, j \in 1..Len(outcomes) :
          /\ outcomes[i].status = "Success"
          /\ Len(outcomes[i].attempts) = num_retries
          /\ outcomes[j].status = "Failed"
          /\ Len(outcomes[j].attempts) = num_retries

\* C3 (as claimed): a transport error of a file fetch or of the streaming of
\* its body does not end the run: a process that has ended otherwise than by
\* an interrupt or a failed listing has given every file of the list an outcome.
C3_TransportErrorIsTransient ==
    (pc = "exited" /\ how \notin {"aborted", "listing"})
        => Len(outcomes) = Len(file_paths)

\* the paths of the outcomes, in order
OutcomePaths == [i \in 1..Len(outcomes) |-> outcomes[i].path]
AnyFailed == \E i \in 1..Len(outcomes) : outcomes[i].status = "Failed"

\* C4: the files are given their outcomes in list order; a step that gives a
\* file the outcome Failed leaves the process in the loop, at the next file;
\* and a run whose loop finishes has an outcome for every file and exits with
\* status 1 if some file ended Failed, with status 0 otherwise.
C4_FailedDoesNotStopRun ==
    /\ [](/\ OutcomePaths = SubSeq(file_paths, 1, Len(outcomes))
          /\ Syncing => Len(outcomes) = idx - 1
          /\ how = "normal" =>
                /\ OutcomePaths = file_paths
                /\ exit_code = IF AnyFailed THEN 1 ELSE 0)
    /\ [][ (Len(outcomes') = Len(outcomes) + 1 /\ Last(outcomes').status = "Failed")
             => (pc' = "fetch" /\ idx' = idx + 1 /\ how' = "") ]_vars

\* a run in which the first file failed and the second was downloaded
C4_Witness ==
    /\ how = "normal"
    /\ Len(outcomes) = 2
    /\ outcomes[1].status = "Failed"
    /\ outcomes[2].status = "Success"
    /\ exit_code = 1

\* a second run in which a file, downloaded by the first run with no local
\* copy before, is requested with its local copy in place and answered by the
\* server
SecondSync(i) ==
    /\ run = 2
    /\ i <= Len(prev_outcomes)
    /\ prev_outcomes[i].path = outcomes[i].path
    /\ prev_outcomes[i].status = "Success"
    /\ prev_outcomes[i].attempts[1].headers = << >>
    /\ outcomes[i].attempts[1].headers # << >>
    /\ outcomes[i].attempts[1].status \in {200, 304}

\* C5 (as claimed): in every time zone, a file the first run downloaded (no
\* local copy before) is Skipped by the second run, and has the remote body
\* and the remote modification time after both.
C5_DownloadedThenSkipped ==
    \A i \in 1..Len(outcomes) :
        SecondSync(i) =>
            /\ outcomes[i].status = "Skipped"
            /\ fs[DstPath(outcomes[i].path)].content = Body(outcomes[i].path)
            /\ fs[DstPath(outcomes[i].path)].mtime = RemoteTime

\* a file, downloaded with no local copy before, is downloaded again by the
\* second run; the time zone is west of UTC
C5_Witness ==
    /\ tz < 0
    /\ \E i \in 1..Len(outcomes) : SecondSync(i) /\ outcomes[i].status = "Success"

\* C9 (as claimed): no step of the synchronization of a file f creates,
\* modifies or deletes the destination of another file g of the task list.
C9_OtherDestinationsUntouched ==
    [][ Syncing =>
          \A i \in 1..Len(file_paths) :
              file_paths[i] # src_file_path =>
                  FileAt(fs', DstPath(file_paths[i])) = FileAt(fs, DstPath(file_paths[i])) ]_vars

\* C10: a listing fetch that answers another status than 200 is the last call
\* of list_dir of the run: the process has ended by the exception, not with
\* status 0, and no file was fetched; and a file is fetched only when the queue
\* is empty and every listing of the walk answered 200.
C10_ListingFailureIsFatal ==
    /\ \A i \in 1..Len(listed) :
          listed[i].status # 200 =>
              /\ i = Len(listed)
              /\ pc = "exited"
              /\ how = "listing"
              /\ exit_code # 0
              /\ attempts = << >>
              /\ outcomes = << >>
    /\ (attempts # << >> \/ outcomes # << >>) =>
          /\ dir_queue = << >>
          /\ \A i \in 1..Len(listed) : listed[i].status = 200

\* the listing of the root answered 200, that of a sub-directory did not
C10_Witness ==
    /\ how = "listing"
    /\ exit_code = 1
    /\ Len(listed) = 2
    /\ listed[1].status = 200
    /\ listed[2].status # 200

----------------------------------------------------------------------------
(* Properties of the walk *)

\* get_file_list has returned
Walked == pc = "fetch"

\* name is one path component, optionally followed by one '/'
SingleComponent(name) ==
    LET base == IF EndsWith(name, "/") THEN SubSeq(name, 1, Len(name) - 1) ELSE name
    IN  /\ base # << >>
        /\ \A k \in 1..Len(base) : base[k] # "/"
        /\ base # <<".", ".">>

\* path p has a segment '..'
HasDotDotSegment(p) ==
    \E i \in 1..(Len(p) - 1) :
        /\ p[i] = "." /\ p[i + 1] = "."
        /\ (i = 1 \/ p[i - 1] = "/")
        /\ (i + 1 = Len(p) \/ p[i + 2] = "/")

\* C6 (as claimed): every name list_dir returns is a single path component,
\* optionally followed by '/', and no path of the directory queue or of the
\* file list has a '..' segment.
C6_OnlySingleComponents ==
    /\ \A name \in accepted : SingleComponent(name)
    /\ \A p \in Range(dir_queue) \cup Range(file_paths) : ~HasDotDotSegment(p)

\* the decoded hrefs of the listing page of directory d
Names(d) == { Unquote(h) : h \in Range(remote[d]) }
IsParentLink(name) == name = <<".", ".", "/">>

\* the sub-directories and the files the listing of d names
ChildDirs(d) ==
    IF d \in DOMAIN remote
    THEN { d \o n : n \in { m \in Names(d) : SingleComponent(m) /\ EndsWith(m, "/") } }
    ELSE {}
ChildFiles(d) ==
    IF d \in DOMAIN remote
    THEN { d \o n : n \in { m \in Names(d) : SingleComponent(m) /\ ~EndsWith(m, "/") } }
    ELSE {}

\* the directories of the remote tree at depth k or less, excluded or not
RECURSIVE TreeDirsWithin(_)
TreeDirsWithin(k) ==
    IF k = 0 THEN {RootDir}
    ELSE LET D == TreeDirsWithin(k - 1)
         IN  D \cup UNION { ChildDirs(d) : d \in D }

TreeDirs == TreeDirsWithin(Cardinality(DOMAIN remote))
TreeFiles == UNION { ChildFiles(d) : d \in TreeDirs }

\* the listings of the tree hold only children (single components) and the
\* link to the parent directory, and every directory of the tree has a listing
WellFormedTree ==
    /\ TreeDirs \subseteq DOMAIN remote
    /\ \A d \in TreeDirs : \A name \in Names(d) :
          IsParentLink(name) \/ SingleComponent(name)

\* the ancestor directories of path f below the root
Ancestors(f) == { SubSeq(f, 1, i) : i \in { k \in 2..(Len(f) - 1) : f[k] = "/" } }

\* the files of the tree that are not excluded and have no excluded ancestor
ExpectedFiles ==
    { f \in TreeFiles : ~Excluded(f) /\ \A a \in Ancestors(f) : ~Excluded(a) }

\* C7: for a remote tree (listings of single-component children and parent
\* links), the paths get_file_list returns are exactly the files of the tree
\* that are not excluded and whose ancestor directories below the root are not
\* excluded; and no excluded directory is ever enqueued or listed.
C7_ExactlyTheNonExcludedFiles ==
    /\ (Walked /\ WellFormedTree) => Range(file_paths) = ExpectedFiles
    /\ \A d \in Range(dir_queue) \cup { listed[i].dir : i \in 1..Len(listed) } :
          d = RootDir \/ ~Excluded(d)

\* a walk of a tree with a file that is not excluded itself, beneath an
\* excluded directory, beside a file that is returned
C7_Witness ==
    /\ Walked
    /\ WellFormedTree
    /\ file_paths # << >>
    /\ \E f \in TreeFiles : ~Excluded(f) /\ \E a \in Ancestors(f) : Excluded(a)

IsSorted(s) == \A i \in 1..(Len(s) - 1) : ~StrLess(s[i + 1], s[i])

\* C8: the list get_file_list returns is in ascending codepoint order, and a
\* second walk of the same tree with the same excludes returns the same list,
\* whatever order the listing pages gave their entries in.
C8_SameSortedList ==
    /\ Walked => IsSorted(file_paths)
    /\ (Walked /\ run > 1) => file_paths = prev_paths

\* two walks whose listing pages differed in order, returning two files
C8_Witness ==
    /\ Walked
    /\ run = 2
    /\ listed # prev_listed
    /\ Len(file_paths) >= 2
    /\ file_paths[1] # file_paths[2]

----------------------------------------------------------------------------
(* Properties of the operator interrupt *)

\* C11: wherever the running process stands (a listing fetch, a file fetch,
\* the streaming of a body, the backoff sleep), an interrupt can be delivered;
\* the step that delivers it ends the process as 'Aborted' with exit status 1
\* and issues no listing or file fetch, gives no file an outcome and writes no
\* file; and the only step that follows is a new invocation of the program.
C11_InterruptAborts ==
    /\ [](pc # "exited" => ENABLED Interrupt)
    /\ [](how = "aborted" => (pc = "exited" /\ exit_code = 1))
    /\ [][ (how # "aborted" /\ how' = "aborted") =>
             /\ pc' = "exited"
             /\ exit_code' = 1
             /\ UNCHANGED << listed, attempts, outcomes, fs, idx >> ]_vars
    /\ [][ how = "aborted" => run' = run + 1 ]_vars

\* the process was interrupted in the backoff sleep after a failed attempt,
\* with files of the list left unprocessed
C11_Witness ==
    /\ how = "aborted"
    /\ exit_code = 1
    /\ attempts # << >>
    /\ Len(attempts) = try_count
    /\ Last(attempts).status = 500
    /\ idx < Len(file_paths)

----------------------------------------------------------------------------
(* Further properties of the walk *)

ListedDirs == { listed[i].dir : i \in 1..Len(listed) }
NoRepeat(s) == \A i, j \in 1..Len(s) : s[i] = s[j] => i = j

\* C12 (as claimed): the list get_file_list returns holds no path twice.
C12_NoDuplicateFiles == Walked => NoRepeat(file_paths)

\* C13: in one walk list_dir is called at most once with any directory path,
\* the root included: no path stands twice in the queue, and no path of the
\* queue has been listed.
C13_ListedAtMostOnce ==
    /\ NoRepeat([i \in 1..Len(listed) |-> listed[i].dir])
    /\ NoRepeat(dir_queue)
    /\ \A d \in Range(dir_queue) : d \notin ListedDirs \/ pc = "exited"

\* a walk in which /s/s/ was named by the root listing and by the listing of
\* /s/, and was listed
C13_Witness ==
    /\ Walked
    /\ hrefS \in Range(remote[RootDir])
    /\ hrefSS \in Range(remote[RootDir])
    /\ hrefS \in Range(remote[SubDir])
    /\ SubSubDir \in ListedDirs
    /\ ~Excluded(SubDir)

\* C16: no path of file_paths ends with '/', during the walk and in the list
\* it returns, so main hands no directory path to download_file_with_retry.
C16_NoDirectoryInFileList ==
    /\ \A p \in Range(file_paths) : ~EndsWith(p, "/")
    /\ \A i \in 1..Len(outcomes) : ~EndsWith(outcomes[i].path, "/")

\* a walk that listed a sub-directory and returned files
C16_Witness ==
    /\ Walked
    /\ SubDir \in ListedDirs
    /\ Len(file_paths) >= 2

----------------------------------------------------------------------------
(* Termination of the walk *)

\* the trees of the termination specification: files, directories, a
\* directory reachable through two parents, and the entry './'
TermRootHrefs == { hrefA, hrefS, hrefSS, hrefDot }
TermSubHrefs == { hrefA, hrefS }
TermTrees ==
    { Tree(r, s) : r \in Listings(TermRootHrefs, MaxRootEntries),
                   s \in Listings(TermSubHrefs, MaxSubEntries) }
TermExcludes == { << >>, << <<"s", "/", "s">> >> }

InitTerm ==
    /\ remote \in TermTrees
    /\ excludes \in TermExcludes
    /\ tz = 0
    /\ fs = << >>
    /\ ldirs = {}
    /\ Started

\* the process keeps running: a pending listing fetch is eventually answered
SpecWalkFair == InitTerm /\ [][NextWalk]_vars /\ WF_vars(ListDirOK \/ ListDirFail)

\* the directories the listing of d leads to: valid names ending with '/',
\* composed with d, not excluded
NextDirs(d) ==
    IF Resolve(d) \in DOMAIN remote /\ Len(d) <= MaxPathLen
    THEN { d \o n : n \in { m \in Names(Resolve(d)) : ValidPath(m) /\ EndsWith(m, "/")
                                                       /\ ~Excluded(d \o m) } }
    ELSE {}

\* the directories reachable from those of D
RECURSIVE ReachFrom(_)
ReachFrom(D) ==
    LET N == D \cup UNION { NextDirs(d) : d \in D }
    IN  IF N = D THEN D ELSE ReachFrom(N)

ReachableDirs == ReachFrom({RootDir})

\* C20 (as claimed): with every listing fetch answered, the walk ends:
\* get_file_list returns, or a listing that did not answer 200 raised; and
\* when it has returned the queue is empty and every directory reachable from
\* the root through directories that are not excluded has been listed.
C20_WalkTerminates ==
    /\ (pc = "walk") ~> (Walked \/ how = "listing")
    /\ [](Walked => (dir_queue = << >> /\ ListedDirs = ReachableDirs))

\* why the walk of the failing server has no end, at any path length: a
\* listing fetch answered 200 for a directory whose listing holds './' leaves
\* the path of that directory continued by './' in the queue, a path whose
\* fetch is answered with the same listing
C20_DotRefillsQueue ==
    [][ ( /\ pc = "walk"
          /\ Len(listed') = Len(listed) + 1
          /\ listed'[Len(listed')].status = 200
          /\ hrefDot \in Range(listed'[Len(listed')].page)
          /\ ~Excluded(Head(dir_queue) \o hrefDot) )
        => ( /\ pc' = "walk"
             /\ (Head(dir_queue) \o hrefDot) \in Range(dir_queue')
             /\ Resolve(Head(dir_queue) \o hrefDot) = Resolve(Head(dir_queue)) ) ]_vars

\* no listing of the server holds the entry './'
NoDotEntry == \A d \in DOMAIN remote : hrefDot \notin Range(remote[d])

\* the walk of a server without such an entry does end
C20_TerminatesWithoutDot == NoDotEntry => C20_WalkTerminates

\* this step issues a GET that is answered with status st: the attempt is
\* added to those of the current file, or to those of the file it finishes
Answered(st) ==
    \/ /\ Len(attempts') = Len(attempts) + 1
       /\ attempts'[Len(attempts')].status = st
    \/ /\ Len(outcomes') = Len(outcomes) + 1
       /\ Len(outcomes'[Len(outcomes')].attempts) = Len(attempts) + 1
       /\ Last(outcomes'[Len(outcomes')].attempts).status = st

\* C15: an attempt answered 304 ends the file as Skipped and writes nothing,
\* and an attempt answered with a status other than 200 and 304 writes nothing:
\* no file of the destination, '.tmp' files included, is created or changed in
\* content or modification time.
C15_NoWriteUnless200 ==
    [][ /\ Answered(304) => /\ fs' = fs
                            /\ Len(outcomes') = Len(outcomes) + 1
                            /\ outcomes'[Len(outcomes')].status = "Skipped"
        /\ Answered(500) => fs' = fs ]_vars

\* a file that was skipped on a 304 after an attempt answered 500, its
\* destination in place
C15_Witness ==
    \E i \in 1..Len(outcomes) :
        /\ outcomes[i].status = "Skipped"
        /\ Len(outcomes[i].attempts) = 2
        /\ outcomes[i].attempts[1].status = 500
        /\ outcomes[i].attempts[2].status = 304
        /\ DstPath(outcomes[i].path) \in DOMAIN fs

\* this step ends a file as Downloaded
Downloaded ==
    /\ Len(outcomes') = Len(outcomes) + 1
    /\ outcomes'[Len(outcomes')].status = "Success"

\* the remote path a destination path stands for
SrcOf(dst) == <<"/">> \o dst

\* C17: when an attempt ends in Downloaded the destination holds exactly the
\* streamed body with the Last-Modified time of the response and the '.tmp'
\* file of the download is gone; and at no time does a destination hold the
\* whole body of its remote file with another modification time.
C17_DownloadedIsBodyAtLastModified ==
    /\ [][ Downloaded =>
             LET dst == DstPath(outcomes'[Len(outcomes')].path)
             IN  /\ dst \in DOMAIN fs'
                 /\ fs'[dst].content = Body(outcomes'[Len(outcomes')].path)
                 /\ fs'[dst].mtime = RemoteTime
                 /\ TmpPath(dst) \notin DOMAIN fs' ]_vars
    /\ [](\A dst \in DOMAIN fs :
             fs[dst].content = Body(SrcOf(dst)) => fs[dst].mtime = RemoteTime)

\* /s/a has been downloaded over no earlier copy, and /a over an earlier one
C17_Witness ==
    /\ \E i \in 1..Len(outcomes) : outcomes[i].status = "Success" /\ outcomes[i].path = <<"/", "s", "/", "a">>
    /\ \E i \in 1..Len(outcomes) :
          /\ outcomes[i].status = "Success"
          /\ outcomes[i].path = <<"/", "a">>
          /\ outcomes[i].attempts[1].headers # << >>
    /\ fs[<<"s", "/", "a">>].content = Body(<<"/", "s", "/", "a">>)
    /\ fs[<<"a">>].content = Body(<<"/", "a">>)

\* C18 (as claimed): a directory is created under the destination root only
\* once a 200 response has been received for the file being fetched; attempts
\* that fail or are skipped create none.
C18_DirsOnlyAfter200 ==
    [][ ldirs' # ldirs =>
          \E k \in 1..Len(attempts') : attempts'[k].status = 200 ]_vars

\* the number of finished files of this run with outcome st
CountOf(st) == Cardinality({ i \in 1..Len(outcomes) : outcomes[i].status = st })

\* C19: every file main has processed has added 1 to exactly one counter:
\* each counter is the number of files with its outcome, the three sum to the
\* number of files processed, at normal completion to the length of the file
\* list, and failed_count is the number of files whose every attempt failed.
C19_CountersPartitionTheFiles ==
    /\ download_count = CountOf("Success")
    /\ skipped_count = CountOf("Skipped")
    /\ failed_count = CountOf("Failed")
    /\ download_count + skipped_count + failed_count = Len(outcomes)
    /\ Syncing => Len(outcomes) = idx - 1
    /\ how = "normal" => download_count + skipped_count + failed_count = Len(file_paths)
    /\ failed_count = Cardinality({ i \in 1..Len(outcomes) : AllFail(outcomes[i].attempts) })

\* a run that completed with one file failed and one skipped
C19_Witness ==
    /\ how = "normal"
    /\ Len(file_paths) = 2
    /\ failed_count = 1
    /\ skipped_count = 1
    /\ download_count = 0

----------------------------------------------------------------------------
(* The exclude matcher on its own *)

patFooStar == <<"f", "o", "o", "/", "*">>
pathFoo == <<"/", "f", "o", "o">>
pathFooBar == <<"/", "f", "o", "o", "/", "b", "a", "r">>
pathFooBarBaz == pathFooBar \o <<"/", "b", "a", "z", ".", "t", "x", "t">>
pathFoobar == <<"/", "f", "o", "o", "b", "a", "r">>

\* the characters of the patterns and of the paths put to the matcher
PatternChars == { "a", "/", "*" }
ProbeChars == { "a", "b", "/", "\n" }

MatchPatterns == SeqsUpTo(PatternChars, MaxPatternLen) \cup { patFooStar }
MatchExcludes ==
    { << >> } \cup { <<p>> : p \in MatchPatterns }
              \cup { <<p, q>> : p, q \in SeqsUpTo(PatternChars, 1) }
MatchPaths ==
    { <<"/">> \o t : t \in SeqsUpTo(ProbeChars, MaxProbeLen) }
        \cup { pathFoo, pathFooBar, pathFooBarBaz, pathFoobar }

InitMatch ==
    /\ remote = Tree(<< >>, << >>)
    /\ excludes \in MatchExcludes
    /\ tz = 0
    /\ fs = << >>
    /\ ldirs = {}
    /\ run = 1
    /\ pc = "match"
    /\ dir_queue = << >>
    /\ dirs_seen = {}
    /\ file_paths = << >>
    /\ listed = << >>
    /\ accepted = {}
    /\ idx = 1
    /\ try_count = 1
    /\ attempts = << >>
    /\ download_count = 0
    /\ skipped_count = 0
    /\ failed_count = 0
    /\ outcomes = << >>
    /\ exit_code = -1
    /\ how = ""
    /\ prev_paths = << >>
    /\ prev_listed = << >>
    /\ prev_outcomes = << >>
    /\ probe \in [x : MatchPaths, result : {"asked"}]

\* exclude_re.match(x), exclude_re = compile_exclude_patterns(excludes)
Match ==
    /\ pc = "match"
    /\ probe.result = "asked"
    /\ probe' = [probe EXCEPT !.result = IF Excluded(probe.x) THEN "excluded" ELSE "kept"]
    /\ UNCHANGED << remote, excludes, tz, pc, syncVars, walkVars, runVars, exit_code, how >>

NextMatch == Match

SpecMatch == InitMatch /\ [][NextMatch]_vars

\* p[1..i] is s[1..j], each '*' of p standing for characters other than '/'
RECURSIVE Stands(_, _, _, _)
Stands(p, i, s, j) ==
    IF i = 0 THEN j = 0
    ELSE IF p[i] = "*"
    THEN \/ Stands(p, i - 1, s, j)
         \/ (j > 0 /\ s[j] # "/" /\ Stands(p, i, s, j - 1))
    ELSE j > 0 /\ s[j] = p[i] /\ Stands(p, i - 1, s, j - 1)

\* '/' and then p is the whole of x, or a prefix of x that a '/' follows
Covers(p, x) ==
    \E n \in 1..Len(x) :
        /\ x[1] = "/"
        /\ (n = Len(x) \/ x[n + 1] = "/")
        /\ Stands(p, Len(p), SubSeq(x, 2, n), n - 1)

SomeCovers(patterns, x) == \E k \in 1..Len(patterns) : Covers(patterns[k], x)

Matched == probe.result \in { "excluded", "kept" }

\* the four paths the pattern 'foo/*' is said to exclude or to keep
FooStarExamples ==
    (Matched /\ excludes = <<patFooStar>>) =>
        /\ probe.x \in { pathFooBar, pathFooBarBaz } => probe.result = "excluded"
        /\ probe.x \in { pathFoo, pathFoobar } => probe.result = "kept"

\* C14 (as claimed): the matcher excludes an absolute path exactly when some
\* pattern, anchored at '/', with '*' for characters other than '/' and every
\* other character literal, is the whole path or a prefix of it that a '/'
\* follows; no pattern excludes nothing; 'foo/*' excludes '/foo/bar' and
\* '/foo/bar/baz.txt' and neither '/foo' nor '/foobar'.
C14_ExcludesExactlyCovered ==
    /\ Matched => (probe.result = "excluded" <=> SomeCovers(excludes, probe.x))
    /\ FooStarExamples

\* on paths that hold no newline the matcher is as claimed
C14_AsClaimedWithoutNewline ==
    (\A k \in 1..Len(probe.x) : probe.x[k] # "\n") => C14_ExcludesExactlyCovered

====
